---------------------------- MODULE Spec2Model ----------------------------
(***************************************************************************)
(* Model of the PDF preview benchmark of src/main.py: the discovery of the *)
(* input files by PreviewGenerationEvaluator.__init__, the task loop of    *)
(* run_preview_benchmark, the timing wrapper BasePreviewGenerator.         *)
(* create_preview and the five adapters' _create_preview.                  *)
(*                                                                         *)
(* The rasterisation libraries, the file system and the standard library   *)
(* (pathlib, os.path) are the environment.  A library call either returns  *)
(* or raises an Exception; which of the two is chosen nondeterministically.*)
(* Paths follow the POSIX flavour of pathlib (case-sensitive matching).    *)
(***************************************************************************)
EXTENDS Integers, Sequences, FiniteSets, TLC

(***************************************************************************)
(* Bounds of the model.                                                    *)
(***************************************************************************)
MaxEntries == 5      \* entries of the input directory, discovery
MaxFiles   == 2      \* entries of the input directory, benchmark runs
MaxDpi     == 2      \* length of dpi_set
MaxQuality == 2      \* length of quality_set
MaxTasks   == 4      \* tasks of one run: Len(dpi_set)*Len(quality_set)*N
MaxRuns    == 2      \* calls of run_preview_benchmark on one evaluator
MaxNest    == 8      \* tasks of the run of the full loop nest

(***************************************************************************)
(* Text.  A string is a sequence of one-character strings, so that suffix  *)
(* matching, splitext and the comparison of names are computed.            *)
(***************************************************************************)
\* The characters of the model, in ascending code point order.
Alphabet == <<"-", ".", "0", "1", "2", "3", "4", "5", "6", "7", "8", "9",
              "D", "F", "P",
              "a", "b", "c", "d", "e", "f", "g", "i", "j", "m", "n", "p",
              "s", "t", "u", "v", "w", "x", "y", "z">>

Ord(c) == CHOOSE i \in 1..Len(Alphabet) : Alphabet[i] = c

\* Python's str comparison: lexicographic by code point.
StrLess(s, t) ==
    \E i \in 1..(Len(s) + 1) :
        /\ i <= Len(t)
        /\ \A j \in 1..(i - 1) : s[j] = t[j]
        /\ \/ i = Len(s) + 1
           \/ Ord(s[i]) < Ord(t[i])

EndsWith(s, suffix) ==
    /\ Len(s) >= Len(suffix)
    /\ SubSeq(s, Len(s) - Len(suffix) + 1, Len(s)) = suffix

Digits == <<"0", "1", "2", "3", "4", "5", "6", "7", "8", "9">>

RECURSIVE StrNat(_)
StrNat(n) == IF n < 10 THEN <<Digits[n + 1]>>
             ELSE StrNat(n \div 10) \o <<Digits[(n % 10) + 1]>>

\* str(int): decimal digits, a leading "-" for a negative number.
Str(n) == IF n < 0 THEN <<"-">> \o StrNat(0 - n) ELSE StrNat(n)

(***************************************************************************)
(* os.path.splitext(name)[0] for a name without a separator: the text      *)
(* before the last dot, unless everything before the last dot is dots.     *)
(***************************************************************************)
DotIndex(name) ==
    IF \E i \in 1..Len(name) : name[i] = "."
    THEN CHOOSE i \in 1..Len(name) :
            /\ name[i] = "."
            /\ \A j \in (i + 1)..Len(name) : name[j] # "."
    ELSE 0

PureName(name) ==
    IF /\ DotIndex(name) > 0
       /\ \E i \in 1..(DotIndex(name) - 1) : name[i] # "."
    THEN SubSeq(name, 1, DotIndex(name) - 1)
    ELSE name

(***************************************************************************)
(* The input directory.  An entry is a path below the directory (one name, *)
(* or two for an entry of a subdirectory) and what the path is.            *)
(***************************************************************************)
A_PDF      == <<"a", ".", "p", "d", "f">>
B_PDF_UP   == <<"b", ".", "P", "D", "F">>
C_PDF      == <<"c", ".", "p", "d", "f">>
D_PDF      == <<"d", ".", "p", "d", "f">>
E_PDF      == <<"e", ".", "p", "d", "f">>
DOT_PDF    == <<".", "p", "d", "f">>
DOTPDF_PDF == <<".", "p", "d", "f", ".", "p", "d", "f">>
SUB        == <<"s", "u", "b">>
A_TXT      == <<"a", ".", "t", "x", "t">>

\* "file": regular file, "dir": directory, "link_file": symbolic link to a
\* regular file, "link_broken": dangling symbolic link, "fifo": named pipe.
Kinds == {"file", "dir", "link_file", "link_broken", "fifo"}

Entry(path, kind) == [path |-> path, kind |-> kind]

EntryUniverse ==
    { Entry(<<A_PDF>>, "file"), Entry(<<B_PDF_UP>>, "file"),
      Entry(<<C_PDF>>, "file"), Entry(<<C_PDF>>, "link_file"),
      Entry(<<D_PDF>>, "dir"), Entry(<<E_PDF>>, "fifo"),
      Entry(<<E_PDF>>, "link_broken"),
      Entry(<<DOT_PDF>>, "file"), Entry(<<DOTPDF_PDF>>, "file"),
      Entry(<<A_TXT>>, "file"),
      Entry(<<SUB>>, "dir"), Entry(<<SUB, D_PDF>>, "file") }

\* A directory tree: one entry per path, and a nested entry has its parent.
WellFormed(listing) ==
    /\ \A e, f \in listing : e.path = f.path => e = f
    /\ \A e \in listing :
          Len(e.path) = 2 => Entry(<<e.path[1]>>, "dir") \in listing

Listings(n) ==
    { l \in SUBSET EntryUniverse : Cardinality(l) <= n /\ WellFormed(l) }

\* Directories of regular files only, for the benchmark runs.
FileUniverse ==
    { Entry(<<A_PDF>>, "file"), Entry(<<DOT_PDF>>, "file"),
      Entry(<<DOTPDF_PDF>>, "file") }

FileListings(n) == { l \in SUBSET FileUniverse : Cardinality(l) <= n }


(***************************************************************************)
(* PreviewGenerationEvaluator.__init__: glob("*.pdf"), is_file(), sort.    *)
(***************************************************************************)
PDF_EXT == <<".", "p", "d", "f">>

\* A matcher that ignores case would also accept ".PDF".
MatchesIgnoringCase(name) ==
    \/ EndsWith(name, PDF_EXT)
    \/ EndsWith(name, <<".", "P", "D", "F">>)

\* fnmatch of the pattern "*.pdf", case-sensitive: the name ends with ".pdf".
Matches(name) == EndsWith(name, PDF_EXT)

\* input_path.glob("*.pdf"): the direct children whose name matches.
Glob(listing) ==
    { e \in listing : Len(e.path) = 1 /\ Matches(e.path[1]) }

\* Path.is_file(): a regular file, symbolic links followed.
IsFile(e) == e.kind \in {"file", "link_file"}

\* list.sort(key=name): insertion of each element before the first greater one.
RECURSIVE InsertByName(_, _)
InsertByName(sorted, name) ==
    IF sorted = <<>> THEN <<name>>
    ELSE IF StrLess(name, Head(sorted)) THEN <<name>> \o sorted
    ELSE <<Head(sorted)>> \o InsertByName(Tail(sorted), name)

RECURSIVE SortByName(_)
SortByName(names) ==
    IF names = <<>> THEN <<>>
    ELSE InsertByName(SortByName(SubSeq(names, 1, Len(names) - 1)),
                      names[Len(names)])

\* The orders in which the directory scan may yield a set of entries.
Orders(S) ==
    { o \in [1..Cardinality(S) -> S] : \A e \in S : \E n \in DOMAIN o : o[n] = e }

\* lines 161-163, for one order of the scan
Discover(order) ==
    SortByName([n \in 1..Len(SelectSeq(order, IsFile)) |->
                    SelectSeq(order, IsFile)[n].path[1]])

(***************************************************************************)
(* GeneratorType and the registry of adapters.                             *)
(***************************************************************************)
WAND      == <<"w", "a", "n", "d">>
PDF2IMAGE == <<"p", "d", "f", "2", "i", "m", "a", "g", "e">>
FITZ      == <<"f", "i", "t", "z">>
PYPDFIUM2 == <<"p", "y", "p", "d", "f", "i", "u", "m", "2">>
PYVIPS    == <<"p", "y", "v", "i", "p", "s">>

GeneratorType == {WAND, PDF2IMAGE, FITZ, PYPDFIUM2, PYVIPS}

\* register_generator calls of __init__: type -> class of the instance
Registered(type) ==
    CASE type = WAND      -> "WandPreviewGenerator"
      [] type = PDF2IMAGE -> "Pdf2imagePreviewGenerator"
      [] type = FITZ      -> "FitzPreviewGenerator"
      [] type = PYPDFIUM2 -> "Pypdfium2PreviewGenerator"
      [] type = PYVIPS    -> "PyvipsPreviewGenerator"

JPEG == <<"j", "p", "e", "g">>
PNG  == <<"p", "n", "g">>
ImageTypes == {JPEG, PNG}

OUTPUT_ROOT == <<"o", "u", "t">>


(***************************************************************************)
(* run_preview_benchmark: the loop nest, the output paths, mkdir.          *)
(***************************************************************************)
Task(d, q, f) == [d |-> d, q |-> q, f |-> f]

RECURSIVE Concat(_)
Concat(seqs) == IF seqs = <<>> THEN <<>> ELSE Head(seqs) \o Concat(Tail(seqs))

\* The loop nest with the loops over dpi_set and quality_set exchanged.
ScheduleQualityOuter(nd, nq, nf) ==
    Concat([q \in 1..nq |->
        Concat([d \in 1..nd |->
            [f \in 1..nf |-> Task(d, q, f)]])])

\* The tasks in the order the three nested for loops reach them; a task is
\* the triple of positions in dpi_set, quality_set and input_files.
Schedule(nd, nq, nf) ==
    Concat([d \in 1..nd |->
        Concat([q \in 1..nq |->
            [f \in 1..nf |-> Task(d, q, f)]])])

\* lines 190-193: output_path / image_type / pure_name / str(dpi) / str(quality)
OutputDir(itype, name, dpi, quality) ==
    <<OUTPUT_ROOT, itype, PureName(name), Str(dpi), Str(quality)>>

\* line 197: output_dir / f"{generator_type}.{image_type}"
OutputFile(gtype, itype, name, dpi, quality) ==
    Append(OutputDir(itype, name, dpi, quality), gtype \o <<".">> \o itype)

Parent(path) == SubSeq(path, 1, Len(path) - 1)

Prefixes(path) == { SubSeq(path, 1, n) : n \in 1..Len(path) }

\* Path.mkdir(parents, exist_ok) on the directories ds and the files fs;
\* env is what the operating system answers ("ok" or an OSError it raises).
MkdirOf(path, parents, exist_ok, ds, fs, env) ==
    IF env # "ok" THEN [error |-> env, dirs |-> ds]
    ELSE IF path \in ds
    THEN [error |-> IF exist_ok THEN "none" ELSE "FileExistsError", dirs |-> ds]
    ELSE IF path \in DOMAIN fs
    THEN [error |-> "FileExistsError", dirs |-> ds]
    ELSE IF Parent(path) # <<>> /\ Parent(path) \notin ds /\ ~parents
    THEN [error |-> "FileNotFoundError", dirs |-> ds]
    ELSE IF \E pre \in Prefixes(path) : pre \in DOMAIN fs
    THEN [error |-> "NotADirectoryError", dirs |-> ds]
    ELSE [error |-> "none", dirs |-> ds \cup Prefixes(path)]

\* mkdir without exist_ok.
MkdirNoExistOk(path, ds, fs, env) == MkdirOf(path, TRUE, FALSE, ds, fs, env)

\* line 194: output_dir.mkdir(parents=True, exist_ok=True)
Mkdir(path, ds, fs, env) == MkdirOf(path, TRUE, TRUE, ds, fs, env)


(***************************************************************************)
(* The adapters' _create_preview.  lib is what the wrapped library does on *)
(* this call: "ok", "render_raises" (opening or rendering raises),         *)
(* "no_pages" (pdf2image's convert_from_path returns an empty list) or     *)
(* "save_partial" (the save raises and leaves a partly written file).      *)
(***************************************************************************)
Call(name, path, dpi, quality, itype) ==
    [input_path |-> name, output_path |-> path, dpi |-> dpi,
     quality |-> quality, image_type |-> itype]

NoSave == [format |-> "", option |-> "", value |-> 0 - 1]

Returned(exc, save, written) == [exc |-> exc, save |-> save, written |-> written]

\* A save call of a library: the arguments it is handed and what comes of it.
Save(lib, format, option, value) ==
    LET save == [format |-> format, option |-> option, value |-> value]
    IN  IF lib = "save_partial" THEN Returned("OSError", save, "partial")
        ELSE Returned("none", save, "whole")

\* Python's round(num / den): to the nearest integer, a tie to the even one.
Round(num, den) ==
    LET fl == num \div den
        r2 == 2 * (num % den)
    IN  IF r2 < den THEN fl
        ELSE IF r2 > den THEN fl + 1
        ELSE IF fl % 2 = 0 THEN fl ELSE fl + 1

\* The compression level rounded to the nearest integer.
CompressLevelRounded(quality) == Round(quality * 9, 100)

\* int(quality / 100 * 9): the quotient truncated towards zero.  For the
\* qualities 0..100 the floating point product has the integer part of the
\* exact quotient quality * 9 / 100.
CompressLevel(quality) ==
    IF quality >= 0 THEN (quality * 9) \div 100
    ELSE 0 - (((0 - quality) * 9) \div 100)

\* lines 69-75
WandCreatePreview(call, lib) ==
    IF lib = "render_raises" THEN Returned("RenderError", NoSave, "none")
    ELSE Save(lib, call.image_type, "compression_quality", call.quality)

\* lines 87-100
Pdf2imageCreatePreview(call, lib) ==
    IF lib = "render_raises" THEN Returned("RenderError", NoSave, "none")
    ELSE IF lib = "no_pages" THEN Returned("none", NoSave, "none")
    ELSE IF call.image_type = JPEG
    THEN Save(lib, JPEG, "quality", call.quality)
    ELSE Save(lib, PNG, "compress_level", CompressLevel(call.quality))

\* lines 112-118
FitzCreatePreview(call, lib) ==
    IF lib = "render_raises" THEN Returned("RenderError", NoSave, "none")
    ELSE Save(lib, call.image_type, "jpg_quality", call.quality)

\* lines 130-137
Pypdfium2CreatePreview(call, lib) ==
    IF lib = "render_raises" THEN Returned("RenderError", NoSave, "none")
    ELSE IF call.image_type = JPEG
    THEN Save(lib, JPEG, "quality", call.quality)
    ELSE Save(lib, PNG, "compress_level", CompressLevel(call.quality))

\* lines 149-154
PyvipsCreatePreview(call, lib) ==
    IF lib = "render_raises" THEN Returned("RenderError", NoSave, "none")
    ELSE IF call.image_type = JPEG
    THEN Save(lib, call.image_type, "Q", call.quality)
    ELSE Save(lib, call.image_type, "compression", CompressLevel(call.quality))

\* What each library can do on a call.
LibOutcomes(cls) ==
    {"ok", "render_raises", "save_partial"}
        \cup (IF cls = "Pdf2imagePreviewGenerator" THEN {"no_pages"} ELSE {})

\* self._create_preview(...) of the instance of class cls
DoCreatePreview(cls, call, lib) ==
    CASE cls = "WandPreviewGenerator"      -> WandCreatePreview(call, lib)
      [] cls = "Pdf2imagePreviewGenerator" -> Pdf2imageCreatePreview(call, lib)
      [] cls = "FitzPreviewGenerator"      -> FitzCreatePreview(call, lib)
      [] cls = "Pypdfium2PreviewGenerator" -> Pypdfium2CreatePreview(call, lib)
      [] cls = "PyvipsPreviewGenerator"    -> PyvipsCreatePreview(call, lib)

(***************************************************************************)
(* BasePreviewGenerator.create_preview: the try/except around the adapter. *)
(***************************************************************************)
\* The exceptions of the model; each is a subclass of Exception.
Exceptions == {"RenderError", "OSError"}

DurationLine(cls, call) ==
    [kind |-> "duration", cls |-> cls, name |-> call.input_path,
     dpi |-> call.dpi, quality |-> call.quality,
     image_type |-> call.image_type, error |-> "none"]

ErrorLine(cls, exc) ==
    [kind |-> "error", cls |-> cls, name |-> <<>>, dpi |-> 0, quality |-> 0,
     image_type |-> <<>>, error |-> exc]

\* A wrapper whose except clause prints nothing.
CreatePreviewSilent(cls, call, result) ==
    IF result.exc = "none"
    THEN [lines |-> <<DurationLine(cls, call)>>, propagated |-> "none"]
    ELSE [lines |-> <<>>, propagated |-> "none"]

\* A wrapper whose except clause names OSError instead of Exception.
CreatePreviewCatchingOSError(cls, call, result) ==
    IF result.exc = "none"
    THEN [lines |-> <<DurationLine(cls, call)>>, propagated |-> "none"]
    ELSE IF result.exc = "OSError"
    THEN [lines |-> <<ErrorLine(cls, result.exc)>>, propagated |-> "none"]
    ELSE [lines |-> <<>>, propagated |-> result.exc]

\* lines 39-47: the lines printed and the exception that leaves the method
CreatePreview(cls, call, result) ==
    IF result.exc = "none"
    THEN [lines |-> <<DurationLine(cls, call)>>, propagated |-> "none"]
    ELSE IF result.exc \in Exceptions
    THEN [lines |-> <<ErrorLine(cls, result.exc)>>, propagated |-> "none"]
    ELSE [lines |-> <<>>, propagated |-> result.exc]


(***************************************************************************)
(* State.                                                                  *)
(***************************************************************************)
VARIABLES
    directory,       \* the entries of the input directory
    input_files,     \* self.input_files
    generators,      \* the registry __generators
    generator_type,  \* the arguments of run_preview_benchmark
    dpi_set,
    quality_set,
    image_type,
    planned_runs,    \* how often the caller calls run_preview_benchmark
    run,             \* the calls of run_preview_benchmark so far
    pc,              \* "new", "ready", "mkdir", "call", "done", "aborted"
    t,               \* position of the current task in the loop nest
    dirs,            \* the directories below and including the output root
    files,           \* the files below the output root and what wrote them
    calls,           \* the create_preview calls of the current run
    log,             \* the lines printed by the current run
    last_save,       \* the arguments of the latest library save call
    raised,          \* the exception that left run_preview_benchmark
    before           \* history: dirs, files and calls when the run began

vars == <<directory, input_files, generators, generator_type, dpi_set,
          quality_set, image_type, planned_runs, run, pc, t, dirs, files,
          calls, log, last_save, raised, before>>

config == <<directory, generator_type, dpi_set, quality_set, image_type,
            planned_runs>>

DpiValues == {150, 200}
QualityValues == {6, 75}
AllQualities == 0..100

SeqsUpTo(S, n) == UNION { [1..m -> S] : m \in 1..n }

NoFiles == [p \in {} |-> 0]

Discovered(listing) == { e \in Glob(listing) : IsFile(e) }

InitWith(listings, gtypes, itypes, dpis, qualities, runs, tasks) ==
    /\ directory \in listings
    /\ generator_type \in gtypes
    /\ image_type \in itypes
    /\ dpi_set \in dpis
    /\ quality_set \in qualities
    /\ Len(dpi_set) * Len(quality_set) * Cardinality(Discovered(directory))
          <= tasks
    /\ planned_runs = runs
    /\ input_files = <<>>
    /\ generators = NoFiles
    /\ run = 0
    /\ pc = "new"
    /\ t = 0
    /\ dirs = {}
    /\ files = NoFiles
    /\ calls = <<>>
    /\ log = <<>>
    /\ last_save = NoSave
    /\ raised = "none"
    /\ before = [dirs |-> {}, files |-> NoFiles, calls |-> <<>>]

(***************************************************************************)
(* Actions.                                                                *)
(***************************************************************************)
\* PreviewGenerationEvaluator(input_path=..., output_path=...)
Construct ==
    /\ pc = "new"
    /\ \E order \in Orders(Glob(directory)) :
          input_files' = Discover(order)
    /\ generators' = [g \in GeneratorType |-> Registered(g)]
    /\ pc' = "ready"
    /\ UNCHANGED <<config, run, t, dirs, files, calls, log, last_save, raised,
                   before>>

Tasks == Schedule(Len(dpi_set), Len(quality_set), Len(input_files))

\* The arguments of the create_preview call of task number n.
CallOf(n) ==
    LET task == Tasks[n]
        dpi == dpi_set[task.d]
        quality == quality_set[task.q]
        name == input_files[task.f]
    IN  Call(name, OutputFile(generator_type, image_type, name, dpi, quality),
             dpi, quality, image_type)

\* The directory one level above the output directory of task number n.
DirOfParent(n) ==
    LET task == Tasks[n]
    IN  Parent(OutputDir(image_type, input_files[task.f], dpi_set[task.d],
                         quality_set[task.q]))

\* The output directory of task number n.
DirOf(n) ==
    LET task == Tasks[n]
    IN  OutputDir(image_type, input_files[task.f], dpi_set[task.d],
                  quality_set[task.q])

\* The loop goes on with task number n, or ends.
Goto(n) == IF n <= Len(Tasks) THEN "mkdir" ELSE "done"

\* run_preview_benchmark is called.
RunStart ==
    /\ pc \in {"ready", "done"}
    /\ run < planned_runs
    /\ run' = run + 1
    /\ t' = 1
    /\ pc' = Goto(1)
    /\ calls' = <<>>
    /\ log' = <<>>
    /\ last_save' = NoSave
    /\ before' = [dirs |-> dirs, files |-> files, calls |-> calls]
    /\ UNCHANGED <<config, input_files, generators, dirs, files, raised>>

\* A loop that catches the error of mkdir and goes on with the next task.
AfterMkdirErrorSkip(error, n) ==
    [pc |-> Goto(n + 1), raised |-> "none", t |-> n + 1]

\* What the loop does when mkdir raises: the exception leaves the method.
AfterMkdirError(error, n) == [pc |-> "aborted", raised |-> error, t |-> n]

\* lines 190-194 of one iteration
MkdirStep ==
    /\ pc = "mkdir"
    /\ \E env \in {"ok", "PermissionError"} :
          LET made == Mkdir(DirOf(t), dirs, files, env)
              after == AfterMkdirError(made.error, t)
          IN  /\ dirs' = made.dirs
              /\ IF made.error = "none"
                 THEN /\ pc' = "call"
                      /\ UNCHANGED <<raised, t>>
                 ELSE /\ pc' = after.pc
                      /\ raised' = after.raised
                      /\ t' = after.t
    /\ UNCHANGED <<config, input_files, generators, run, files, calls, log,
                   last_save, before>>

\* The file system after an adapter call.
Written(fs, path, written) ==
    IF written = "none" THEN fs
    ELSE (path :> [run |-> run, state |-> written]) @@ fs

\* lines 195-201 of one iteration: the call of create_preview, to its return
CreatePreviewStep ==
    /\ pc = "call"
    /\ LET cls == generators[generator_type]
           call == CallOf(t)
       IN  \E lib \in LibOutcomes(cls) :
              LET result == DoCreatePreview(cls, call, lib)
                  out == CreatePreview(cls, call, result)
              IN  /\ calls' = Append(calls, [task |-> Tasks[t], call |-> call,
                                             exc |-> result.exc,
                                             written |-> result.written])
                  /\ files' = Written(files, call.output_path, result.written)
                  /\ last_save' = IF result.save = NoSave THEN last_save
                                  ELSE result.save
                  /\ log' = log \o out.lines
                  /\ IF out.propagated = "none"
                     THEN /\ t' = t + 1
                          /\ pc' = Goto(t + 1)
                          /\ UNCHANGED raised
                     ELSE /\ pc' = "aborted"
                          /\ raised' = out.propagated
                          /\ UNCHANGED t
    /\ UNCHANGED <<config, input_files, generators, run, dirs, before>>

Next == Construct \/ RunStart \/ MkdirStep \/ CreatePreviewStep

\* The command line program: one evaluator, one run.
Init ==
    InitWith(FileListings(MaxFiles), GeneratorType, ImageTypes,
             SeqsUpTo(DpiValues, MaxDpi), SeqsUpTo(QualityValues, MaxQuality),
             1, MaxTasks)

Spec == Init /\ [][Next]_vars

\* One evaluator on any directory, one run of one dpi and one quality.
InitDiscovery ==
    InitWith(Listings(MaxEntries), {FITZ}, {PNG}, {<<150>>}, {<<75>>}, 1,
             MaxTasks)

SpecDiscovery == InitDiscovery /\ [][Next]_vars

\* One evaluator, run_preview_benchmark called MaxRuns times with the same
\* arguments.
InitRerun ==
    InitWith(FileListings(MaxFiles), {FITZ, PDF2IMAGE}, {PNG},
             SeqsUpTo(DpiValues, 1), SeqsUpTo(QualityValues, 1), MaxRuns,
             MaxTasks)

SpecRerun == InitRerun /\ [][Next]_vars

\* One task for every adapter, image type and quality of 0..100.
InitQuality ==
    InitWith({{Entry(<<A_PDF>>, "file")}}, GeneratorType, ImageTypes,
             {<<150>>}, { <<q>> : q \in AllQualities }, 1, MaxTasks)

SpecQuality == InitQuality /\ [][Next]_vars

\* One run of two dpi values, two qualities and up to two input files.
InitNest ==
    InitWith({ l \in FileListings(2) : Entry(<<A_PDF>>, "file") \in l },
             {FITZ}, {PNG}, {<<200, 150>>}, {<<75, 6>>}, 1, MaxNest)

SpecNest == InitNest /\ [][Next]_vars


(***************************************************************************)
(* Properties.                                                             *)
(***************************************************************************)
Expected == Len(dpi_set) * Len(quality_set) * Len(input_files)

ClassName == Registered(generator_type)

\* The line create_preview is to print for the n-th call of the run.
LineFor(n) ==
    IF calls[n].exc = "none" THEN DurationLine(ClassName, calls[n].call)
    ELSE ErrorLine(ClassName, calls[n].exc)

\* C1: a run that returns has made exactly D*Q*N create_preview calls and
\* printed exactly D*Q*N lines, and at any moment every call made so far has
\* printed exactly one line, the duration line or the error line.
C1_CallsAndLines ==
    /\ Len(log) = Len(calls)
    /\ \A n \in 1..Len(log) :
          /\ log[n].kind \in {"duration", "error"}
          /\ log[n] = LineFor(n)
    /\ pc = "done" => Len(calls) = Expected /\ Len(log) = Expected

\* A returned run of four tasks of which some failed and some succeeded.
C1_Witness ==
    /\ pc = "done"
    /\ Expected = 4
    /\ Len(log) = 4
    /\ \E m, n \in 1..4 : log[m].kind = "duration" /\ log[n].kind = "error"

\* C2: an exception of _create_preview never leaves run_preview_benchmark;
\* the failed call prints the error line naming the adapter class and the
\* exception, the loop stands at the task after it, and a run that returns
\* has attempted every task.
C2_FailureIsolated ==
    /\ raised \notin Exceptions
    /\ \A n \in 1..Len(calls) :
          calls[n].exc # "none" =>
             /\ n <= Len(log)
             /\ log[n] = ErrorLine(ClassName, calls[n].exc)
    /\ pc \in {"mkdir", "call"} => t = Len(calls) + 1
    /\ pc = "done" => Len(calls) = Expected

\* A returned run whose first call failed and whose later call succeeded.
C2_Witness ==
    /\ pc = "done"
    /\ Len(calls) = 4
    /\ calls[1].exc = "RenderError"
    /\ calls[2].exc = "OSError"
    /\ calls[3].exc = "none"
    /\ log[3].kind = "duration"


\* The (input file, dpi, quality) of the n-th call of the run.
TupleOf(n) ==
    <<calls[n].call.input_path, calls[n].call.dpi, calls[n].call.quality>>

\* C3: the output path of a call is decided by its (input file, dpi, quality)
\* and the run's renderer type, and two calls of a run with different
\* (input file, dpi, quality) have different output paths.
C3_DistinctTasksDistinctPaths ==
    \A m, n \in 1..Len(calls) :
        /\ TupleOf(m) = TupleOf(n) =>
              calls[m].call.output_path = calls[n].call.output_path
        /\ TupleOf(m) # TupleOf(n) =>
              calls[m].call.output_path # calls[n].call.output_path

\* C4: whenever create_preview printed the duration line for a call, a file
\* is at the call's output_path.
C4_SuccessLeavesFile ==
    \A n \in 1..Len(calls) :
        (n <= Len(log) /\ log[n].kind = "duration") =>
            calls[n].call.output_path \in DOMAIN files

\* The direct entries of the directory that the claim describes: the name
\* ends with ".pdf" and the entry is a regular file (a symbolic link counts
\* as what it points to).
DescribedNames ==
    { e.path[1] : e \in { x \in directory :
                            /\ Len(x.path) = 1
                            /\ EndsWith(x.path[1], <<".", "p", "d", "f">>)
                            /\ x.kind \in {"file", "link_file"} } }

\* C5: once the evaluator is constructed, input_files holds exactly the
\* names of the regular files directly in the directory that end with
\* ".pdf", in strictly ascending order of name (so each once).
C5_InputFiles ==
    pc # "new" =>
        /\ { input_files[n] : n \in 1..Len(input_files) } = DescribedNames
        /\ \A n \in 1..(Len(input_files) - 1) :
              StrLess(input_files[n], input_files[n + 1])

\* The directory of the example: a.pdf, b.PDF, c.pdf and sub/d.pdf.
C5_Witness ==
    /\ pc = "ready"
    /\ directory = { Entry(<<A_PDF>>, "file"), Entry(<<B_PDF_UP>>, "file"),
                     Entry(<<C_PDF>>, "file"), Entry(<<SUB>>, "dir"),
                     Entry(<<SUB, D_PDF>>, "file") }
    /\ input_files = <<A_PDF, C_PDF>>

OutputPaths(cs) == [n \in 1..Len(cs) |-> cs[n].call.output_path]

SameOutcomes(cs, ds) ==
    /\ Len(cs) = Len(ds)
    /\ \A n \in 1..Len(cs) : (cs[n].written = "none") = (ds[n].written = "none")

\* C6: no run ends with FileExistsError; a second run that returns has
\* the directories of the first and targets the same output paths in the
\* same order; a file the second run writes carries the second run's
\* content; and when the library calls of the second run write where those
\* of the first did, the files of the two runs are at the same paths.
C6_RerunSamePaths ==
    /\ raised # "FileExistsError"
    /\ (run >= 2 /\ pc = "done") =>
          /\ dirs = before.dirs
          /\ OutputPaths(calls) = OutputPaths(before.calls)
          /\ DOMAIN before.files \subseteq DOMAIN files
          /\ \A n \in 1..Len(calls) :
                calls[n].written # "none" =>
                   files[calls[n].call.output_path].run = run
          /\ SameOutcomes(calls, before.calls) =>
                DOMAIN files = DOMAIN before.files

\* A second run that has overwritten the two files of the first.
C6_Witness ==
    /\ run = 2
    /\ pc = "done"
    /\ Len(calls) = 2
    /\ \A n \in 1..2 :
          /\ before.calls[n].written = "whole"
          /\ calls[n].written = "whole"
          /\ before.files[calls[n].call.output_path].run = 1
          /\ files[calls[n].call.output_path].run = 2

\* The place of a task in the order dpi, then quality, then input file.
Rank(task) ==
    ((task.d - 1) * Len(quality_set) + (task.q - 1)) * Len(input_files) + task.f

\* C7: the n-th create_preview call of a run is the call of the task of
\* rank n in the order (dpi position, quality position, file position), with
\* that task's dpi, quality and input file, and every call made has returned
\* (its line is printed) before the loop stands at the next task.
C7_LoopOrder ==
    /\ \A n \in 1..Len(calls) :
          /\ Rank(calls[n].task) = n
          /\ calls[n].call.dpi = dpi_set[calls[n].task.d]
          /\ calls[n].call.quality = quality_set[calls[n].task.q]
          /\ calls[n].call.input_path = input_files[calls[n].task.f]
    /\ pc \in {"mkdir", "call"} => Len(log) = t - 1 /\ Len(calls) = t - 1

\* The full nest: two dpi values, two qualities, two files, all attempted.
C7_Witness ==
    /\ pc = "done"
    /\ Len(calls) = 8
    /\ calls[2].task = Task(1, 1, 2)
    /\ calls[3].task = Task(1, 2, 1)
    /\ calls[5].task = Task(2, 1, 1)

\* C8: when create_preview is about to be called, the parent directory of
\* the output path and all its ancestors exist, and so does the parent of
\* every call made; mkdir never fails because the directory exists.
C8_ParentExists ==
    /\ pc = "call" => Prefixes(Parent(CallOf(t).output_path)) \subseteq dirs
    /\ \A n \in 1..Len(calls) : Parent(calls[n].call.output_path) \in dirs
    /\ raised \notin {"FileExistsError", "FileNotFoundError"}

\* The second task of a run is about to be rendered into a directory that the
\* first task's mkdir had partly created.
C8_Witness ==
    /\ pc = "call"
    /\ t = 2
    /\ Len(calls) = 1
    /\ Parent(Parent(DirOf(2))) \in before.dirs \cup dirs
    /\ DirOf(1) # DirOf(2)

\* C9: when mkdir raises, run_preview_benchmark ends with that error, the
\* task's adapter is not called, nothing further happens, and the files
\* written by the earlier calls are still there; while the loop goes on,
\* no error is pending and every task before the current one was attempted.
C9_MkdirErrorAborts ==
    /\ pc = "aborted" =>
          /\ raised = "PermissionError"
          /\ Len(calls) = t - 1
          /\ Len(log) = t - 1
          /\ ~ ENABLED Next
          /\ \A n \in 1..Len(calls) :
                calls[n].written # "none" =>
                    calls[n].call.output_path \in DOMAIN files
    /\ pc \in {"mkdir", "call", "done"} =>
          /\ raised = "none"
          /\ pc # "done" => Len(calls) = t - 1
          /\ pc = "done" => Len(calls) = Len(Tasks)

\* mkdir failed at the third of four tasks, after a file was written.
C9_Witness ==
    /\ pc = "aborted"
    /\ raised = "PermissionError"
    /\ t = 3
    /\ Len(Tasks) = 4
    /\ Len(calls) = 2
    /\ calls[1].written = "whole"

\* The save options that carry a translated quality.
Translating == {"compress_level", "compression"}

\* C10 as stated: the png compression level handed to the library is
\* round(quality / 100 * 9).
C10_Rounded ==
    (calls # <<>> /\ last_save.option \in Translating) =>
        last_save.value = Round(calls[Len(calls)].call.quality * 9, 100)

\* C10, amended: for png the three translating adapters hand the library
\* the integer part of quality * 9 / 100, the v in 0..9 with
\* 100 * v <= 9 * quality < 100 * (v + 1); for jpeg every adapter hands the
\* quality over unchanged; and the translating adapters translate exactly
\* when the image type is png.
C10_Truncated ==
    (calls # <<>> /\ last_save # NoSave) =>
        LET call == calls[Len(calls)].call
            v == last_save.value
        IN  /\ last_save.option \in Translating =>
                /\ v \in 0..9
                /\ 100 * v <= 9 * call.quality
                /\ 9 * call.quality < 100 * (v + 1)
            /\ call.image_type = JPEG => v = call.quality
            /\ (/\ call.image_type = PNG
                /\ generator_type \in {PDF2IMAGE, PYPDFIUM2, PYVIPS})
                  => last_save.option \in Translating

\* pdf2image saving a png of quality 6 with compression level 0.
C10_Witness ==
    /\ calls # <<>>
    /\ generator_type = PDF2IMAGE
    /\ image_type = PNG
    /\ calls[Len(calls)].call.quality = 6
    /\ last_save = [format |-> PNG, option |-> "compress_level", value |-> 0]

=============================================================================
